---- MODULE Spec2Model ----
(***************************************************************************)
(* Binlytics backend (backend/server.js): an Express server over a lowdb   *)
(* JSON store { wasteReadings: [] }.                                       *)
(*                                                                         *)
(* Numbers.  weightKg, moistureRaw and every sum or average are decimal    *)
(* numbers; they are represented as integers counting thousandths (1.234   *)
(* is 1234), so inputs carry up to three decimals and an output "rounded   *)
(* to two decimals" is a multiple of 10.  Arithmetic is exact: the binary  *)
(* representation error of IEEE doubles is not modelled.                   *)
(* Time.  Date.now() counts hours here (the code counts milliseconds); an  *)
(* ISO timestamp string is the pair of its date part and its time part.    *)
(***************************************************************************)
EXTENDS Integers, Sequences, FiniteSets, TLC

VARIABLES
    wasteReadings,  \* db.get('wasteReadings').value(): the stored readings, in insertion order
    now,            \* the system clock, Date.now()
    issued,         \* how many ids nanoid() has generated
    res             \* the last request and the response sent for it

vars == <<wasteReadings, now, issued, res>>

Min(a, b) == IF a < b THEN a ELSE b
Max(a, b) == IF a > b THEN a ELSE b

(***************************************************************************)
(* JavaScript values that arrive in a JSON body or a query string.         *)
(***************************************************************************)
Undefined == [t |-> "undefined"]
Null == [t |-> "null"]
NaN == [t |-> "NaN"]
Infinity == [t |-> "Infinity"]
Str(s) == [t |-> "string", s |-> s]
Num(n) == [t |-> "number", n |-> n]

\* The numeric value of the string literals used as inputs (StringToNumber of
\* ECMAScript): the empty string is 0, a decimal literal is its value, the
\* literal Infinity is infinite, anything else is NaN.
StringToNumber(s) ==
    CASE s = "" -> Num(0)
      [] s = "2.5" -> Num(2500)
      [] s = "700" -> Num(700000)
      [] s = "Infinity" -> Infinity
      [] OTHER -> NaN

\* Number(value)
ToNumber(value) ==
    CASE value.t = "undefined" -> NaN
      [] value.t = "null" -> Num(0)
      [] value.t = "string" -> StringToNumber(value.s)
      [] OTHER -> value

TruthyNotNullish(value) == value.t \notin {"undefined", "null"}

\* !!value
Truthy(value) ==
    CASE value.t = "string" -> value.s # ""
      [] value.t = "number" -> value.n # 0
      [] value.t = "Infinity" -> TRUE
      [] OTHER -> FALSE

\* String(value), for the values that pass the truthiness check as identifiers
JsString(value) ==
    CASE value.t = "string" -> value.s

parseNumber(value) ==
    LET parsed == ToNumber(value)
    IN  IF parsed.t = "number" THEN parsed ELSE Null

(***************************************************************************)
(* parseInt(value, 10) on a query-string value: Undefined when the         *)
(* parameter is absent, else a string given as its sequence of characters. *)
(***************************************************************************)
Digits == <<"0", "1", "2", "3", "4", "5", "6", "7", "8", "9">>

IsDigit(c) == \E i \in 1..Len(Digits) : Digits[i] = c

DigitValue(c) == (CHOOSE i \in 1..Len(Digits) : Digits[i] = c) - 1

RECURSIVE SkipSpaces(_)
SkipSpaces(cs) ==
    IF cs # <<>> /\ Head(cs) = " " THEN SkipSpaces(Tail(cs)) ELSE cs

RECURSIVE DigitPrefix(_)
DigitPrefix(cs) ==
    IF cs # <<>> /\ IsDigit(Head(cs))
    THEN <<Head(cs)>> \o DigitPrefix(Tail(cs))
    ELSE <<>>

RECURSIVE DecimalValue(_)
DecimalValue(ds) ==
    IF ds = <<>> THEN 0
    ELSE 10 * DecimalValue(SubSeq(ds, 1, Len(ds) - 1)) + DigitValue(ds[Len(ds)])

\* [nan |-> TRUE] or [nan |-> FALSE, n |-> the integer]
parseInt(value) ==
    IF value.t = "undefined" THEN [nan |-> TRUE, n |-> 0]
    ELSE LET s == SkipSpaces(value.cs)
             neg == s # <<>> /\ Head(s) = "-"
             signed == s # <<>> /\ Head(s) \in {"-", "+"}
             ds == DigitPrefix(IF signed THEN Tail(s) ELSE s)
         IN  IF ds = <<>> THEN [nan |-> TRUE, n |-> 0]
             ELSE [nan |-> FALSE,
                   n |-> IF neg THEN -DecimalValue(ds) ELSE DecimalValue(ds)]

DefaultDays == 7
MaxDays == 30

parseDays(value) ==
    LET parsed == parseInt(value)
    IN  IF parsed.nan \/ parsed.n <= 0 THEN DefaultDays
        ELSE Min(parsed.n, MaxDays)

(***************************************************************************)
(* Dates.  toISOString gives "YYYY-MM-DDTHH:..." : the date and the time   *)
(* of day in UTC; new Date(iso).getTime() reads it back.                   *)
(***************************************************************************)
HoursPerDay == 24

toISOString(t) == [date |-> t \div HoursPerDay, hour |-> t % HoursPerDay]

getTime(iso) == iso.date * HoursPerDay + iso.hour

dateKeyWithTime(iso) == iso.date * HoursPerDay + iso.hour

\* iso.slice(0, 10): the YYYY-MM-DD part
dateKeyOf(iso) == iso.date

(***************************************************************************)
(* Number(x.toFixed(2)) for the quotient x = num / den, num in             *)
(* thousandths: the nearest multiple of 0.01, the larger in magnitude on a *)
(* tie (Number.prototype.toFixed: "if there are two such n, pick the       *)
(* larger n", applied to the absolute value).                              *)
(***************************************************************************)
RoundDiv(a, b) == (2 * a + b) \div (2 * b)

ToFixed2(num, den) ==
    IF num < 0 THEN -(10 * RoundDiv(-num, 10 * den))
    ELSE 10 * RoundDiv(num, 10 * den)

(***************************************************************************)
(* Sequence helpers.                                                       *)
(***************************************************************************)
\* The sum of a sequence of numbers (0 + x1 + x2 + ...).
RECURSIVE SumOf(_)
SumOf(nums) ==
    IF nums = <<>> THEN 0
    ELSE SumOf(SubSeq(nums, 1, Len(nums) - 1)) + nums[Len(nums)]

\* The distinct keys of a sequence of keys, in order of first occurrence: the
\* order in which a plain object gains its (non-integer) own properties.
RECURSIVE KeysInOrder(_)
KeysInOrder(keys) ==
    IF keys = <<>> THEN <<>>
    ELSE LET init == KeysInOrder(SubSeq(keys, 1, Len(keys) - 1))
             k == keys[Len(keys)]
         IN  IF \E j \in 1..Len(init) : init[j] = k THEN init ELSE Append(init, k)

\* Index i put into the ordering after every index whose key is >= keys[i].
InsertDesc(order, i, keys) ==
    LET n == Cardinality({j \in 1..Len(order) : keys[order[j]] >= keys[i]})
    IN  SubSeq(order, 1, n) \o <<i>> \o SubSeq(order, n + 1, Len(order))

RECURSIVE OrderDesc(_, _)
OrderDesc(n, keys) ==
    IF n = 0 THEN <<>> ELSE InsertDesc(OrderDesc(n - 1, keys), n, keys)

\* Array.prototype.sort with comparator (a, b) => key(b) - key(a): stable,
\* descending by key; keys[i] is the key of seq[i].
SortDesc(seq, keys) ==
    LET order == OrderDesc(Len(seq), keys)
    IN  [k \in 1..Len(seq) |-> seq[order[k]]]

\* array.map(field)
Pluck(seq, f) == [i \in 1..Len(seq) |-> seq[i][f]]

Take(seq, n) == SubSeq(seq, 1, Min(n, Len(seq)))

(***************************************************************************)
(* The scorer.                                                             *)
(***************************************************************************)
\* Math.round of a score: the rubric only adds and subtracts integers
MathRound(value) == value

clampScore(value) == Min(100, Max(0, MathRound(value)))

\* A destructured field with default 0: the default applies when the record
\* has no such field.
FieldOr0(stats, f) == IF f \in DOMAIN stats THEN stats[f] ELSE 0

calculateScoreElseDropped(stats) ==
    LET avgMoisture == FieldOr0(stats, "avgMoisture")
        avgWeight == FieldOr0(stats, "avgWeight")
        entries == FieldOr0(stats, "entries")
    IN  clampScore(100
            - (IF avgMoisture > 750000 THEN 30 ELSE 0)
            - (IF avgMoisture > 600000 THEN 15 ELSE 0)
            - (IF avgWeight > 3000 THEN 20 ELSE 0)
            - (IF avgWeight > 1500 THEN 7 ELSE 0)
            + (IF entries > 15 THEN 5 ELSE 0))

calculateScoreNonStrict(stats) ==
    LET avgMoisture == FieldOr0(stats, "avgMoisture")
        avgWeight == FieldOr0(stats, "avgWeight")
        entries == FieldOr0(stats, "entries")
    IN  clampScore(100
            - (IF avgMoisture >= 750000 THEN 30
               ELSE IF avgMoisture >= 600000 THEN 15 ELSE 0)
            - (IF avgWeight >= 3000 THEN 20
               ELSE IF avgWeight >= 1500 THEN 7 ELSE 0)
            + (IF entries >= 15 THEN 5 ELSE 0))

calculateScore(stats) ==
    LET avgMoisture == FieldOr0(stats, "avgMoisture")
        avgWeight == FieldOr0(stats, "avgWeight")
        entries == FieldOr0(stats, "entries")
        s0 == 100
        s1 == IF avgMoisture > 750000 THEN s0 - 30
              ELSE IF avgMoisture > 600000 THEN s0 - 15
              ELSE s0
        s2 == IF avgWeight > 3000 THEN s1 - 20
              ELSE IF avgWeight > 1500 THEN s1 - 7
              ELSE s1
        s3 == IF entries > 15 THEN s2 + 5 ELSE s2
    IN  clampScore(s3)

(***************************************************************************)
(* The aggregators.                                                        *)
(***************************************************************************)
aggregateByDate(readings) ==
    LET dateKey(entry) == dateKeyOf(toISOString(getTime(entry.timestamp)))
        keys == KeysInOrder([i \in 1..Len(readings) |-> dateKey(readings[i])])
        item(k) ==
            LET group == SelectSeq(readings, LAMBDA entry : dateKey(entry) = k)
            IN  [date |-> k,
                 totalKg |-> SumOf(Pluck(group, "weightKg")),
                 totalMoisture |-> SumOf(Pluck(group, "moistureRaw")),
                 count |-> Len(group)]
        summary(it) ==
            [date |-> it.date,
             totalKg |-> ToFixed2(it.totalKg, 1),
             avgMoisture |-> IF it.count # 0
                             THEN ToFixed2(it.totalMoisture, it.count) ELSE 0,
             count |-> it.count]
        daily == [i \in 1..Len(keys) |-> summary(item(keys[i]))]
    IN  SortDesc(daily, Pluck(daily, "date"))

\* Names every plain object inherits from Object.prototype.  binMap is a
\* plain object: binMap[name] is truthy for each of them before anything is
\* stored, so the aggregator never creates an own property of that name;
\* its additions go to the inherited object and Object.values(binMap) does
\* not list it.
ObjectPrototypeKeys ==
    {"constructor", "toString", "toLocaleString", "valueOf", "hasOwnProperty",
     "isPrototypeOf", "propertyIsEnumerable", "__proto__", "__defineGetter__",
     "__defineSetter__", "__lookupGetter__", "__lookupSetter__"}

aggregateByBin(readings) ==
    LET own == SelectSeq(readings, LAMBDA entry : entry.binId \notin ObjectPrototypeKeys)
        keys == KeysInOrder(Pluck(own, "binId"))
        bin(k) ==
            LET group == SelectSeq(own, LAMBDA entry : entry.binId = k)
            IN  [binId |-> k,
                 totalKg |-> SumOf(Pluck(group, "weightKg")),
                 totalMoisture |-> SumOf(Pluck(group, "moistureRaw")),
                 entries |-> Len(group)]
        stats(b) ==
            [binId |-> b.binId,
             totalKg |-> b.totalKg,
             totalMoisture |-> b.totalMoisture,
             entries |-> b.entries,
             avgWeight |-> IF b.entries # 0 THEN ToFixed2(b.totalKg, b.entries) ELSE 0,
             avgMoisture |-> IF b.entries # 0
                             THEN ToFixed2(b.totalMoisture, b.entries) ELSE 0]
    IN  [i \in 1..Len(keys) |-> stats(bin(keys[i]))]

\* { ...bin, score }
WithScore(bin, score) ==
    [f \in DOMAIN bin \cup {"score"} |-> IF f = "score" THEN score ELSE bin[f]]

(***************************************************************************)
(* The store and the clock.                                                *)
(***************************************************************************)
filterReadingsByDaysStrict(days) ==
    LET all == wasteReadings
        cutoff == now - days * HoursPerDay
    IN  SelectSeq(all, LAMBDA entry : getTime(entry.timestamp) > cutoff)

filterReadingsByDays(days) ==
    LET all == wasteReadings
        cutoff == now - days * HoursPerDay
    IN  SelectSeq(all, LAMBDA entry : getTime(entry.timestamp) >= cutoff)

\* nanoid(): an id no earlier call returned
nanoid == issued + 1

\* A destructured property of the request body: undefined when absent.
Prop(body, f) == IF f \in DOMAIN body THEN body[f] ELSE Undefined

MaxReadings == 2

\* What a client sees of one request: the route, what it sent, the status and
\* body it got, and the time at which the handler ran.
Response(op, req, status, body) ==
    [op |-> op, req |-> req, status |-> status, body |-> body, at |-> now]

(***************************************************************************)
(* The handlers: one action per route.                                     *)
(***************************************************************************)
GetRoot ==
    /\ res' = Response("GET /", <<>>, 200, [message |-> "Binlytics API is running"])
    /\ UNCHANGED <<wasteReadings, now, issued>>

PostWaste(bodies) ==
    \E body \in bodies :
        LET binId == Prop(body, "binId")
            weightKg == Prop(body, "weightKg")
            moistureRaw == Prop(body, "moistureRaw")
            wasteTag == Prop(body, "wasteTag")
            weight == parseNumber(weightKg)
            moisture == parseNumber(moistureRaw)
        IN  IF ~Truthy(binId) \/ ~Truthy(wasteTag)
            THEN /\ res' = Response("POST /api/waste", body, 400,
                                    [error |-> "binId and wasteTag are required."])
                 /\ UNCHANGED <<wasteReadings, now, issued>>
            ELSE IF weight.t = "null" \/ moisture.t = "null"
            THEN /\ res' = Response("POST /api/waste", body, 400,
                                    [error |-> "weightKg and moistureRaw must be numbers."])
                 /\ UNCHANGED <<wasteReadings, now, issued>>
            ELSE LET newEntry == [id |-> nanoid,
                                  binId |-> JsString(binId),
                                  weightKg |-> weight.n,
                                  moistureRaw |-> moisture.n,
                                  wasteTag |-> JsString(wasteTag),
                                  timestamp |-> toISOString(now)]
                 IN  /\ Len(wasteReadings) < MaxReadings
                     /\ wasteReadings' = Append(wasteReadings, newEntry)
                     /\ issued' = issued + 1
                     /\ res' = Response("POST /api/waste", body, 201, newEntry)
                     /\ UNCHANGED now

RecentLimit == 50

recentInPlace ==
    LET times == [i \in 1..Len(wasteReadings) |-> getTime(wasteReadings[i].timestamp)]
        sorted == SortDesc(wasteReadings, times)
    IN  /\ wasteReadings' = sorted
        /\ res' = Response("GET /api/waste/recent", <<>>, 200, Take(sorted, RecentLimit))
        /\ UNCHANGED <<now, issued>>

GetRecent ==
    LET times == [i \in 1..Len(wasteReadings) |-> getTime(wasteReadings[i].timestamp)]
        recent == Take(SortDesc(wasteReadings, times), RecentLimit)
    IN  /\ res' = Response("GET /api/waste/recent", <<>>, 200, recent)
        /\ UNCHANGED <<wasteReadings, now, issued>>

GetDaily(queries) ==
    \E q \in queries :
        LET days == parseDays(q)
            filtered == filterReadingsByDays(days)
            daily == aggregateByDate(filtered)
        IN  /\ res' = Response("GET /api/waste/daily", [days |-> q], 200, daily)
            /\ UNCHANGED <<wasteReadings, now, issued>>

GetStats(queries) ==
    \E q \in queries :
        LET days == parseDays(q)
            filtered == filterReadingsByDays(days)
            stats == aggregateByBin(filtered)
            binStats == SortDesc(stats, Pluck(stats, "entries"))
        IN  /\ res' = Response("GET /api/bins/stats", [days |-> q], 200, binStats)
            /\ UNCHANGED <<wasteReadings, now, issued>>

GetScoreWindowed(binIds, queries) ==
    \E binId \in binIds, q \in queries :
        LET all == SelectSeq(filterReadingsByDays(parseDays(q)),
                             LAMBDA entry : entry.binId = binId)
            req == [binId |-> binId, days |-> q]
            agg == aggregateByBin(all)
        IN  /\ IF Len(all) = 0
               THEN res' = Response("GET /api/bins/score/:binId", req, 404,
                                    [error |-> "No readings found for that bin."])
               ELSE IF Len(agg) = 0
               THEN res' = Response("GET /api/bins/score/:binId", req, 500,
                                    [error |-> "TypeError"])
               ELSE res' = Response("GET /api/bins/score/:binId", req, 200,
                                    WithScore(agg[1], calculateScore(agg[1])))
            /\ UNCHANGED <<wasteReadings, now, issued>>

\* The route reads req.params.binId only; a days query parameter, when the
\* client sends one, is never read.
GetScore(binIds, queries) ==
    \E binId \in binIds, q \in queries :
        LET all == SelectSeq(wasteReadings, LAMBDA entry : entry.binId = binId)
            req == [binId |-> binId, days |-> q]
            agg == aggregateByBin(all)
        IN  /\ IF Len(all) = 0
               THEN res' = Response("GET /api/bins/score/:binId", req, 404,
                                    [error |-> "No readings found for that bin."])
               ELSE IF Len(agg) = 0
               \* const [stats] = [] leaves stats undefined; destructuring it in
               \* calculateScore throws, and Express answers 500
               THEN res' = Response("GET /api/bins/score/:binId", req, 500,
                                    [error |-> "TypeError"])
               ELSE res' = Response("GET /api/bins/score/:binId", req, 200,
                                    WithScore(agg[1], calculateScore(agg[1])))
            /\ UNCHANGED <<wasteReadings, now, issued>>

TopLimit == 10

GetTop ==
    LET agg == aggregateByBin(wasteReadings)
        stats == [i \in 1..Len(agg) |-> WithScore(agg[i], calculateScore(agg[i]))]
        performers == Take(SortDesc(stats, Pluck(stats, "score")), TopLimit)
        offenders == Take(SortDesc(stats, [i \in 1..Len(stats) |-> -stats[i].score]),
                          TopLimit)
    IN  /\ res' = Response("GET /api/admin/top", <<>>, 200,
                           [performers |-> performers, offenders |-> offenders])
        /\ UNCHANGED <<wasteReadings, now, issued>>

\* Time passes between requests.
Tick(steps, horizon) ==
    \E d \in steps :
        /\ now + d <= horizon
        /\ now' = now + d
        /\ UNCHANGED <<wasteReadings, issued, res>>

Init ==
    /\ wasteReadings = <<>>
    /\ now = 0
    /\ issued = 0
    /\ res = Response("none", <<>>, 0, <<>>)

(***************************************************************************)
(* Requests.                                                               *)
(***************************************************************************)
Body(binId, weightKg, moistureRaw, wasteTag) ==
    [binId |-> binId, weightKg |-> weightKg, moistureRaw |-> moistureRaw,
     wasteTag |-> wasteTag]

Without(body, f) == [g \in DOMAIN body \ {f} |-> body[g]]

With(body, f, value) == [body EXCEPT ![f] = value]

\* A query-string value: the characters of the string
Query(cs) == [t |-> "string", cs |-> cs]

BaseBody == Body(Str("BIN-001"), Num(1234), Num(700000), Str("wet"))

AcceptedBodies ==
    {Body(Str(b), w, Num(700000), Str("wet")) :
        b \in {"BIN-001", "BIN-002", "constructor"}, w \in {Num(1234), Str("2.5")}}
    \cup {With(BaseBody, "weightKg", Null)}

RejectedBodies ==
    {<<>>,
     Without(BaseBody, "binId"), With(BaseBody, "binId", Str("")),
     With(BaseBody, "binId", Null),
     Without(BaseBody, "wasteTag"), With(BaseBody, "wasteTag", Str("")),
     Without(BaseBody, "weightKg"), With(BaseBody, "weightKg", Str("abc")),
     With(BaseBody, "weightKg", Infinity),
     Without(BaseBody, "moistureRaw"), With(BaseBody, "moistureRaw", Str("abc")),
     With(BaseBody, "moistureRaw", Str("Infinity"))}

Bodies == AcceptedBodies \cup RejectedBodies

ScoreBinIds == {"BIN-001", "BIN-002", "constructor", "UNKNOWN-BIN"}

DayQueries == {Undefined, Query(<<"1">>)}

LongStep == 8 * HoursPerDay

HorizonDays == 16

Next ==
    \/ GetRoot
    \/ PostWaste(Bodies)
    \/ GetRecent
    \/ GetDaily(DayQueries)
    \/ GetStats(DayQueries)
    \/ GetScore(ScoreBinIds, DayQueries)
    \/ GetTop
    \/ Tick({LongStep}, HorizonDays * HoursPerDay)

Spec == Init /\ [][Next]_vars

(***************************************************************************)
(* The window-scoped routes, over a longer stretch of time.                *)
(***************************************************************************)
WindowBodies ==
    {Body(Str("BIN-001"), Num(1234), Num(700000), Str("wet")),
     Body(Str("constructor"), Str("2.5"), Str("700"), Str("dry"))}

WindowQueries ==
    {Undefined, Query(<<"a", "b", "c">>), Query(<<"0">>), Query(<<"-", "3">>),
     Query(<<"1">>), Query(<<"1", "0">>), Query(<<"4", "5">>)}

\* 7 days, 7 days and a half, 23 days
WindowSteps == {7 * HoursPerDay, 7 * HoursPerDay + 12, 23 * HoursPerDay}

WindowHorizonDays == 31

NextWindow ==
    \/ PostWaste(WindowBodies)
    \/ GetDaily(WindowQueries)
    \/ GetStats(WindowQueries)
    \/ Tick(WindowSteps, WindowHorizonDays * HoursPerDay)

SpecWindow == Init /\ [][NextWindow]_vars

(***************************************************************************)
(* The scorer alone, on statistics records some of whose fields are        *)
(* missing.                                                                *)
(***************************************************************************)
StatsFields == {"avgMoisture", "avgWeight", "entries"}

MoistureInputs == {0, 600000, 600010, 750000, 750010, 10000000}

WeightInputs == {0, 1500, 1510, 3000, 3010, 100000}

EntriesInputs == {0, 15, 16}

StatsRecords ==
    {[f \in F |-> full[f]] :
        full \in [avgMoisture : MoistureInputs, avgWeight : WeightInputs,
                  entries : EntriesInputs],
        F \in SUBSET StatsFields}

InitScore ==
    /\ wasteReadings = <<>>
    /\ now = 0
    /\ issued = 0
    /\ \E stats \in StatsRecords : res = Response("stats", stats, 0, <<>>)

Score ==
    /\ res.op = "stats"
    /\ res' = Response("calculateScore", res.req, 0, calculateScore(res.req))
    /\ UNCHANGED <<wasteReadings, now, issued>>

NextScore == Score

SpecScore == InitScore /\ [][NextScore]_vars

(***************************************************************************)
(* The date aggregator alone, on any sequence of readings.                 *)
(***************************************************************************)
MaxDateReadings == 3

DateInstants == {24, 36, 48, 84}

DateWeights == {1234, 2500}

DateMoistures == {700000, 500015}

DateChoices == DateWeights \X DateMoistures \X DateInstants

DateReading(i, c) ==
    [id |-> i, binId |-> "BIN-001", weightKg |-> c[1], moistureRaw |-> c[2],
     wasteTag |-> "wet", timestamp |-> toISOString(c[3])]

InitDates ==
    /\ wasteReadings = <<>>
    /\ now = 0
    /\ issued = 0
    /\ \E n \in 0..MaxDateReadings :
          \E c \in [1..n -> DateChoices] :
              res = Response("readings", [i \in 1..n |-> DateReading(i, c[i])], 0, <<>>)

Aggregate ==
    /\ res.op = "readings"
    /\ res' = Response("aggregateByDate", res.req, 0, aggregateByDate(res.req))
    /\ UNCHANGED <<wasteReadings, now, issued>>

NextDates == Aggregate

SpecDates == InitDates /\ [][NextDates]_vars

(***************************************************************************)
(* Properties.  The definitions below say what is expected of the          *)
(* responses in terms of the request and the store; they do not use the    *)
(* handlers.                                                               *)
(***************************************************************************)
Abs(x) == IF x < 0 THEN -x ELSE x

SetSum(S, f(_)) ==
    LET R[T \in SUBSET S] ==
            IF T = {} THEN 0
            ELSE LET x == CHOOSE y \in T : TRUE IN f(x) + R[T \ {x}]
    IN  R[S]

\* x is a number of two decimals within half a hundredth of num / den
RoundedTo2(x, num, den) ==
    /\ x % 10 = 0
    /\ Abs(x * den - num) <= 5 * den

Indices(seq) == 1..Len(seq)

-----------------------------------------------------------------------------
\* The rubric as the specification words it.
Rubric(avgMoisture, avgWeight, entries) ==
    LET moisturePenalty == IF avgMoisture > 750000 THEN 30
                           ELSE IF avgMoisture > 600000 THEN 15 ELSE 0
        weightPenalty == IF avgWeight > 3000 THEN 20
                         ELSE IF avgWeight > 1500 THEN 7 ELSE 0
        bonus == IF entries > 15 THEN 5 ELSE 0
        raw == 100 - moisturePenalty - weightPenalty + bonus
    IN  IF raw < 0 THEN 0 ELSE IF raw > 100 THEN 100 ELSE raw

Given(stats, f) == IF f \in DOMAIN stats THEN stats[f] ELSE 0

\* C1: for every statistics record, a missing field counting as 0,
\* calculateScore returns the rubric's value, an integer in 0..100; the
\* comparisons are strict: moisture 600 costs nothing and 750 costs 15,
\* weight 1.5 costs nothing and 3 costs 7, 15 entries earn nothing and 16
\* entries earn 5.
C1_ScoreIsRubric ==
    res.op = "calculateScore" =>
        LET m == Given(res.req, "avgMoisture")
            w == Given(res.req, "avgWeight")
            e == Given(res.req, "entries")
        IN  /\ res.body = Rubric(m, w, e)
            /\ res.body \in 0..100
            /\ (m = 600000 /\ w = 0 /\ e = 0) => res.body = 100
            /\ (m = 600010 /\ w = 0 /\ e = 0) => res.body = 85
            /\ (m = 750000 /\ w = 0 /\ e = 0) => res.body = 85
            /\ (m = 750010 /\ w = 0 /\ e = 0) => res.body = 70
            /\ (m = 0 /\ w = 1500 /\ e = 0) => res.body = 100
            /\ (m = 0 /\ w = 1510 /\ e = 0) => res.body = 93
            /\ (m = 0 /\ w = 3000 /\ e = 0) => res.body = 93
            /\ (m = 0 /\ w = 3010 /\ e = 0) => res.body = 80
            /\ (m = 750000 /\ w = 0 /\ e = 15) => res.body = 85
            /\ (m = 750000 /\ w = 0 /\ e = 16) => res.body = 90

\* A record without avgWeight, at the moisture boundary and just past the
\* entries boundary, has been scored.
C1_Witness ==
    /\ res.op = "calculateScore"
    /\ DOMAIN res.req = {"avgMoisture", "entries"}
    /\ res.req.avgMoisture = 750000
    /\ res.req.entries = 16
    /\ res.body = 90

-----------------------------------------------------------------------------
ExtremeStats == [avgMoisture |-> 10000000, avgWeight |-> 100000, entries |-> 0]

\* C8 as stated: the statistics avgMoisture = 10000, avgWeight = 100,
\* entries = 0 score 0.
C8_ExtremeScoresZero ==
    (res.op = "calculateScore" /\ res.req = ExtremeStats) => res.body = 0

\* C8 as amended: those statistics score 50 (100 - 30 - 20), inside 0..100;
\* the two penalties are the largest the rubric has.
C8_ExtremeScoresFifty ==
    (res.op = "calculateScore" /\ res.req = ExtremeStats) =>
        /\ res.body = 50
        /\ res.body \in 0..100

C8_Witness ==
    /\ res.op = "calculateScore"
    /\ res.req = ExtremeStats
    /\ res.body = 50

-----------------------------------------------------------------------------
MissingOrEmpty(body, f) ==
    \/ f \notin DOMAIN body
    \/ body[f].t = "string" /\ body[f].s = ""

MissingOrNotFinite(body, f) ==
    \/ f \notin DOMAIN body
    \/ ToNumber(body[f]).t # "number"

PassesChecks(body) ==
    /\ ~MissingOrEmpty(body, "binId")
    /\ ~MissingOrEmpty(body, "wasteTag")
    /\ ~MissingOrNotFinite(body, "weightKg")
    /\ ~MissingOrNotFinite(body, "moistureRaw")

\* The response after the step is the one before it.
SameResponse ==
    /\ res'.op = res.op
    /\ res'.status = res.status
    /\ res'.at = res.at
    /\ res'.req = res.req
    /\ res'.body = res.body

\* A step that handles a POST /api/waste: it leaves a new response and does
\* not move the clock.
PostStep ==
    /\ res'.op = "POST /api/waste"
    /\ ~SameResponse
    /\ now' = now

\* C2: a POST /api/waste whose binId or wasteTag is missing or empty, or
\* whose weightKg or moistureRaw is missing or not a finite number, gets 400
\* and leaves wasteReadings as it was; a request is answered 201, and adds a
\* reading, only when it passes all four checks.
C2_InvalidPostRejected ==
    [][PostStep =>
        /\ ~PassesChecks(res'.req) =>
              /\ res'.status = 400
              /\ wasteReadings' = wasteReadings
        /\ res'.status = 201 => PassesChecks(res'.req)
        /\ res'.status = 201 <=> wasteReadings' # wasteReadings
        /\ res'.status \in {201, 400}]_vars

\* A request with a non-numeric weightKg has been rejected while the store
\* holds a reading.
C2_Witness ==
    /\ res.op = "POST /api/waste"
    /\ res.status = 400
    /\ "weightKg" \in DOMAIN res.req
    /\ ToNumber(res.req.weightKg).t = "NaN"
    /\ Len(wasteReadings) >= 1

-----------------------------------------------------------------------------
ReadingFields == {"id", "binId", "weightKg", "moistureRaw", "wasteTag", "timestamp"}

AllSixFields ==
    \A i \in Indices(wasteReadings) : DOMAIN wasteReadings[i] = ReadingFields

UniqueIds ==
    \A i, j \in Indices(wasteReadings) :
        wasteReadings[i].id = wasteReadings[j].id => i = j

AcceptedPostStep ==
    /\ res'.op = "POST /api/waste"
    /\ res'.status = 201
    /\ ~SameResponse

AppendOnlyStep ==
    /\ Len(wasteReadings') >= Len(wasteReadings)
    /\ SubSeq(wasteReadings', 1, Len(wasteReadings)) = wasteReadings
    /\ IF AcceptedPostStep
       THEN wasteReadings' = Append(wasteReadings, res'.body)
       ELSE wasteReadings' = wasteReadings

\* C3: the store is append-only with unique ids: over any sequence of
\* requests the store before a step is a prefix of the store after it, an
\* accepted POST appends exactly its reading at the end, every other request
\* leaves the store unchanged, every stored reading has the six fields and
\* no two stored readings share an id.
C3_AppendOnlyUniqueIds ==
    /\ [](AllSixFields /\ UniqueIds)
    /\ [][AppendOnlyStep]_vars

\* GET /api/waste/recent has answered with the two stored readings in an
\* order other than the store's.
C3_Witness ==
    /\ res.op = "GET /api/waste/recent"
    /\ Len(wasteReadings) = 2
    /\ res.body # wasteReadings
    /\ wasteReadings[1].id # wasteReadings[2].id

-----------------------------------------------------------------------------
StoredOf(binId) == {i \in Indices(wasteReadings) : wasteReadings[i].binId = binId}

StoredBinIds == {wasteReadings[i].binId : i \in Indices(wasteReadings)}

WeightAt(i) == wasteReadings[i].weightKg

MoistureAt(i) == wasteReadings[i].moistureRaw

\* C4 as stated: GET /api/bins/score/:binId answers 404 exactly when no
\* stored reading has that binId, and for every binId with a stored reading
\* it answers with that bin's summary, entries being the number of stored
\* readings of the bin, and with score = calculateScore of the summary.
C4_ScoreForEveryStoredBin ==
    res.op = "GET /api/bins/score/:binId" =>
        LET n == Cardinality(StoredOf(res.req.binId))
        IN  /\ res.status = 404 <=> n = 0
            /\ n > 0 =>
                  /\ res.status = 200
                  /\ res.body.binId = res.req.binId
                  /\ res.body.entries = n
                  /\ res.body.score = calculateScore(res.body)

-----------------------------------------------------------------------------
ExpectedScore(binId) ==
    LET n == Cardinality(StoredOf(binId))
    IN  calculateScore([avgMoisture |-> ToFixed2(SetSum(StoredOf(binId), MoistureAt), n),
                        avgWeight |-> ToFixed2(SetSum(StoredOf(binId), WeightAt), n),
                        entries |-> n])

RankedList(list, sign) ==
    /\ Len(list) = Min(10, Cardinality(StoredBinIds))
    /\ \A i \in Indices(list) :
          /\ list[i].binId \in StoredBinIds
          /\ list[i].score = ExpectedScore(list[i].binId)
    /\ \A i, j \in Indices(list) :
          /\ i < j => sign * list[i].score >= sign * list[j].score
          /\ list[i].binId = list[j].binId => i = j
    /\ \A b \in StoredBinIds \ {list[i].binId : i \in Indices(list)} :
          \A i \in Indices(list) : sign * list[i].score >= sign * ExpectedScore(b)
    /\ Cardinality(StoredBinIds) < 10 =>
          StoredBinIds = {list[i].binId : i \in Indices(list)}

\* C6 as stated: GET /api/admin/top scores every distinct binId over the
\* whole history and returns two lists of min(10, number of distinct bins)
\* entries: performers by score non-increasing holding the highest-scoring
\* bins, offenders by score non-decreasing holding the lowest-scoring bins;
\* with fewer than 10 distinct bins both hold every bin exactly once.
C6_TopListsEveryBin ==
    res.op = "GET /api/admin/top" =>
        /\ RankedList(res.body.performers, 1)
        /\ RankedList(res.body.offenders, -1)

-----------------------------------------------------------------------------
IsIntegerLiteral(cs) ==
    LET ds == IF cs # <<>> /\ cs[1] = "-" THEN Tail(cs) ELSE cs
    IN  ds # <<>> /\ \A i \in Indices(ds) : ds[i] \in {Digits[k] : k \in 1..10}

LiteralValue(cs) ==
    IF cs[1] = "-" THEN -DecimalValue(Tail(cs)) ELSE DecimalValue(cs)

\* The effective window of a days parameter, as the specification words it.
EffectiveWindow(q) ==
    IF q.t = "undefined" THEN 7
    ELSE IF ~IsIntegerLiteral(q.cs) THEN 7
    ELSE IF LiteralValue(q.cs) <= 0 THEN 7
    ELSE IF LiteralValue(q.cs) > 30 THEN 30
    ELSE LiteralValue(q.cs)

\* The stored readings not older than d days at time t, in insertion order.
InWindow(d, t) ==
    SelectSeq(wasteReadings,
              LAMBDA r : ~(r.timestamp.date * 24 + r.timestamp.hour < t - d * 24))

\* C5: for waste/daily and bins/stats the effective window d is 7 when days
\* is absent, non-numeric, 0 or negative and min(days, 30) otherwise (45
\* gives 30, 10 gives 10), and the readings handed to the aggregator are
\* exactly the stored readings with timestamp >= now - d days, in insertion
\* order (a reading exactly at the cutoff included): the response is the
\* aggregate of those readings, and the daily counts add up to their number.
C5_WindowedRoutes ==
    /\ EffectiveWindow(Query(<<"4", "5">>)) = 30
    /\ EffectiveWindow(Query(<<"1", "0">>)) = 10
    /\ res.op \in {"GET /api/waste/daily", "GET /api/bins/stats"} =>
          LET d == EffectiveWindow(res.req.days)
              inWindow == InWindow(d, res.at)
              stats == aggregateByBin(inWindow)
          IN  IF res.op = "GET /api/waste/daily"
              THEN /\ res.body = aggregateByDate(inWindow)
                   /\ SumOf(Pluck(res.body, "count")) = Len(inWindow)
              ELSE res.body = SortDesc(stats, Pluck(stats, "entries"))

\* waste/daily, asked with a non-numeric days, has answered while one stored
\* reading is exactly 7 days old (counted) and another is older (not
\* counted).
C5_Witness ==
    /\ res.op = "GET /api/waste/daily"
    /\ res.req.days = Query(<<"a", "b", "c">>)
    /\ Len(wasteReadings) = 2
    /\ getTime(wasteReadings[1].timestamp) < res.at - 7 * 24
    /\ getTime(wasteReadings[2].timestamp) = res.at - 7 * 24
    /\ Len(res.body) = 1
    /\ res.body[1].count = 1

-----------------------------------------------------------------------------
DatesOf(readings) == {readings[i].timestamp.date : i \in Indices(readings)}

OnDate(readings, date) == {i \in Indices(readings) : readings[i].timestamp.date = date}

\* C7: aggregateByDate returns exactly one summary per distinct UTC date of
\* its input and none for other dates; a summary's count is the number of
\* input readings of that date (the counts sum to the input's length), its
\* totalKg their weight sum and its avgMoisture their moisture sum over the
\* count, each to 2 decimals; the summaries are strictly descending by date.
C7_OneSummaryPerDate ==
    res.op = "aggregateByDate" =>
        LET readings == res.req
            out == res.body
            weightOf(i) == readings[i].weightKg
            moistureOf(i) == readings[i].moistureRaw
        IN  /\ {out[k].date : k \in Indices(out)} = DatesOf(readings)
            /\ Len(out) = Cardinality(DatesOf(readings))
            /\ \A j, k \in Indices(out) : j < k => out[j].date > out[k].date
            /\ SumOf(Pluck(out, "count")) = Len(readings)
            /\ \A k \in Indices(out) :
                  LET on == OnDate(readings, out[k].date)
                  IN  /\ out[k].count = Cardinality(on)
                      /\ DOMAIN out[k] = {"date", "totalKg", "avgMoisture", "count"}
                      /\ RoundedTo2(out[k].totalKg, SetSum(on, weightOf), 1)
                      /\ RoundedTo2(out[k].avgMoisture, SetSum(on, moistureOf),
                                    Cardinality(on))

\* Two readings of one date taken at different times have been merged into
\* one summary of count 2, next to a summary of another date.
C7_Witness ==
    /\ res.op = "aggregateByDate"
    /\ Len(res.req) = 3
    /\ res.req[1].timestamp.date = res.req[3].timestamp.date
    /\ res.req[1].timestamp.hour # res.req[3].timestamp.hour
    /\ res.req[2].timestamp.date > res.req[1].timestamp.date
    /\ Len(res.body) = 2
    /\ res.body[2].count = 2
    /\ res.body[2].totalKg = 3730

-----------------------------------------------------------------------------
InWindowOf(binId, d, t) ==
    {i \in StoredOf(binId) : getTime(wasteReadings[i].timestamp) >= t - d * 24}

\* C9 as stated: GET /api/bins/score/:binId is windowed by days like
\* bins/stats: only the bin's readings inside the trailing window count in
\* the summary it returns.
C9_ScoreIsWindowed ==
    (res.op = "GET /api/bins/score/:binId" /\ res.status = 200) =>
        res.body.entries =
            Cardinality(InWindowOf(res.req.binId, EffectiveWindow(res.req.days), res.at))

\* C9 as amended: the route has no window: whatever days parameter is sent,
\* a summary it returns counts every stored reading of the bin, however old
\* (entries, totalKg and the averages are over the bin's whole history), as
\* admin/top does.
C9_ScoreOverWholeHistory ==
    (res.op = "GET /api/bins/score/:binId" /\ res.status = 200) =>
        LET all == StoredOf(res.req.binId)
            n == Cardinality(all)
        IN  /\ res.body.entries = n
            /\ res.body.totalKg = SetSum(all, WeightAt)
            /\ RoundedTo2(res.body.avgWeight, SetSum(all, WeightAt), n)
            /\ RoundedTo2(res.body.avgMoisture, SetSum(all, MoistureAt), n)
            /\ res.body.score = ExpectedScore(res.req.binId)

\* The score of a bin was asked with days=1 while one of its two readings is
\* 8 days old, and both were counted.
C9_Witness ==
    /\ res.op = "GET /api/bins/score/:binId"
    /\ res.status = 200
    /\ res.req.days = Query(<<"1">>)
    /\ res.body.entries = 2
    /\ Cardinality(InWindowOf(res.req.binId, 1, res.at)) = 1

-----------------------------------------------------------------------------
BinSummaries ==
    CASE res.op = "GET /api/bins/stats" -> res.body
      [] res.op = "GET /api/bins/score/:binId" /\ res.status = 200 -> <<res.body>>
      [] res.op = "GET /api/admin/top" -> res.body.performers \o res.body.offenders
      [] OTHER -> <<>>

\* C10 as stated: every summed or averaged output of aggregateByBin
\* (totalKg, avgWeight, avgMoisture; as bins/stats, bins/score and admin/top
\* return them) is rounded to 2 decimals, avgWeight being the bin's weight
\* sum over its entries.
C10_BinOutputsRounded ==
    \A k \in Indices(BinSummaries) :
        LET b == BinSummaries[k]
            all == StoredOf(b.binId)
        IN  /\ b.totalKg % 10 = 0
            /\ b.avgWeight % 10 = 0
            /\ b.avgMoisture % 10 = 0
            /\ res.op # "GET /api/bins/stats" =>
                  RoundedTo2(b.avgWeight, SetSum(all, WeightAt), b.entries)

====
